---- MODULE Spec2Model ----
(***************************************************************************)
(* The export/documentation pipeline of utils.py and the run operation of  *)
(* the two model base classes (template.py, model.py), as a state machine  *)
(* over a small file system.                                               *)
(*                                                                         *)
(* A path is a sequence of components relative to the working directory    *)
(* (<<>>), a file's content is a sequence of lines, and an optional        *)
(* argument (None in the source) is a record [some, items].                *)
(***************************************************************************)
EXTENDS Integers, Sequences, FiniteSets, TLC

VARIABLES
    fs_dirs,     \* the directories that exist
    fs_files,    \* path -> content, for the files that exist
    call,        \* the arguments of the current (or last) export call
    pc,          \* position of the export call in utils.py
    todo,        \* views whose SVG is still to be exported (the for loop)
    result,      \* "none" | "returned" | "raised": how the last call ended
    retval,      \* the path the call returned
    error,       \* the last exception of the call: step, kind, caught
    pre,         \* history: fs_files when the call started
    written,     \* history: the paths the call has written so far
    calls,       \* number of export calls started (also the clock reading)
    target,      \* the part the calling script exports: base_dir, name, version
    env,         \* os.environ: SHOW_DISPLAY and HIDE_DISPLAY
    inst,        \* the model instance whose run() is executing
    run_pc,      \* position of run(): idle, create, display, export, done, raised
    run_error,   \* the step of run() that raised, "" if none
    created,     \* history: calls of create() in the current run
    displayed,   \* history: calls of show_object() that returned in the current run
    exported,    \* history: the arguments run() has called export with
    ctor,        \* the constructor arguments in use, and the instances built
    attrs,       \* the attributes __init__ assigned to the instance
    frame,       \* the frame of the executing create(): position and locals
    solids,      \* history: the solids the create() calls have returned
    script_pc,   \* the statement scripts/treadmill-cover.py is at (0: not running)
    runs         \* history: the script variables run() was called on, in order

vars == <<fs_dirs, fs_files, call, pc, todo, result, retval, error, pre,
          written, calls, target, env, inst, run_pc, run_error, created,
          displayed, exported, ctor, attrs, frame, solids, script_pc, runs>>

fsVars == <<fs_dirs, fs_files>>
modelVars == <<ctor, attrs, frame, solids, script_pc, runs>>
runVars == <<target, env, inst, run_pc, run_error, created, displayed, exported,
             modelVars>>

----------------------------------------------------------------------------
(* Bounds *)

MaxCalls == 2

----------------------------------------------------------------------------
(* pathlib.Path *)

Root == <<>>
Parent(p) == IF p = Root THEN Root ELSE SubSeq(p, 1, Len(p) - 1)
Join(p, s) == Append(p, s)
Basename(p) == p[Len(p)]

(* Optional arguments: None, or a value. *)
None == [some |-> FALSE, items |-> <<>>]
Some(s) == [some |-> TRUE, items |-> s]

(* os.environ entries and optional attributes: unset, or a string. *)
Unset == [set |-> FALSE, value |-> ""]
Str(x) == [set |-> TRUE, value |-> x]

(* Python truthiness of os.getenv(name): None and "" are false. *)
GetenvTruthy(e) == e.set /\ e.value # ""

(* Python truthiness of an optional dict / str argument. *)
Truthy(opt) == opt.some /\ opt.items # <<>>

----------------------------------------------------------------------------
(* Inputs *)

(* The (base_dir, name, version) a calling script exports to. *)
Target(b, n, v) == [base_dir |-> b, name |-> n, version |-> v]
Targets ==
    { Target(<<"models">>, "widget", 1),
      Target(<<"out", "models">>, "gadget", 2) }

ViewNames == {"front", "iso"}
Descriptions == {"", "A test part"}

View(n, r) == [name |-> n, rotation |-> r]

(* utils.py:44-50 and 103-109: the default view set. *)
DefaultViews == << View("front", <<0, 0, 0>>) >>

ViewArgs ==
    { None,
      Some(<<>>),
      Some(<< View("front", <<0, 0, 0>>), View("iso", <<45, 45, 45>>) >>) }

MetadataArgs ==
    { None,
      Some(<<>>),
      Some(<< <<"Material", "PLA">>, <<"Infill", "20%">> >>) }

(* The solid handed to export, by the geometry it holds, and the extents  *)
(* of its bounding box in 1/100 mm.                                        *)
Models == {"box"}
BoundingBox(m) == [xlen |-> 3000, ylen |-> 2050, zlen |-> 1005]

(* model.val().BoundingBox() is the kernel's: it returns the box, or one   *)
(* of its two calls raises (an empty Workplane's val() is a Vector, which  *)
(* has no BoundingBox).                                                     *)
BBoxOutcomes == {"ok", "val", "BoundingBox"}

(* Every name export can be called with in this model. *)
AllNames ==
    {"widget", "gadget", "massage-gun-attachment", "part", "treadmil-cover", "top_cover",
     "bottom_side_cover", "bottom_middle_cover"}

----------------------------------------------------------------------------
(* File names and contents *)

StlName(n) == n \o ".stl"
SvgName(n, v) == n \o "_" \o v \o ".svg"
DocName(n) == n \o ".md"
VersionDirName(v) == "v" \o ToString(v)

IsStl(f) == \E n \in AllNames : f = StlName(n)
IsDoc(f) == \E n \in AllNames : f = DocName(n)
IsSvg(f) == \E n \in AllNames, v \in ViewNames : f = SvgName(n, v)

(* str.title() on the view names in use. *)
Title(v) == CASE v = "front" -> "Front" [] v = "iso" -> "Iso" [] OTHER -> v

(* datetime.now().strftime('%Y-%m-%d %H:%M:%S'), the clock ticking once a call. *)
Pad2(n) == IF n < 10 THEN "0" \o ToString(n) ELSE ToString(n)
Strftime(t) == "2024-01-01 00:00:" \o Pad2(t % 60)

(* f"{x:.2f}" of an extent given in 1/100 mm. *)
Fmt2(h) == ToString(h \div 100) \o "." \o Pad2(h % 100)

(* What the exporters write: the mesh, and one projection per rotation. *)
StlContent(m) == <<"solid " \o m>>
SvgContent(m, view) == <<"<svg width=800 height=600 stroke=2>", m, ToString(view.rotation)>>

----------------------------------------------------------------------------
(* The file system *)

Exists(p) == p \in fs_dirs \/ p \in DOMAIN fs_files
FilesIn(files, d) == {p \in DOMAIN files : Parent(p) = d}

WriteFile(files, p, c) == [q \in DOMAIN files \cup {p} |-> IF q = p THEN c ELSE files[q]]

(* Mutant: mkdir without exist_ok. *)
MkdirOutcome_NoExistOk(p) ==
    IF Exists(p) THEN "FileExistsError"
    ELSE IF Parent(p) \in DOMAIN fs_files THEN "NotADirectoryError"
    ELSE IF Parent(p) \notin fs_dirs THEN "FileNotFoundError"
    ELSE "ok"

(* Path.mkdir(exist_ok=True), parents=False: "ok", or the exception raised. *)
MkdirOutcome(p) ==
    IF p \in fs_dirs THEN "ok"
    ELSE IF p \in DOMAIN fs_files THEN "FileExistsError"
    ELSE IF Parent(p) \in DOMAIN fs_files THEN "NotADirectoryError"
    ELSE IF Parent(p) \notin fs_dirs THEN "FileNotFoundError"
    ELSE "ok"

(* open(p, 'w'): "ok", or the exception raised. *)
OpenOutcome(p) ==
    IF p \in fs_dirs THEN "IsADirectoryError"
    ELSE IF Parent(p) \notin fs_dirs THEN "FileNotFoundError"
    ELSE "ok"

----------------------------------------------------------------------------
(* export_cad_model and export_cad_model_with_docs: paths and arguments *)

Args(m, n, v, d, b, vw, md) ==
    [model |-> m, name |-> n, version |-> v, description |-> d,
     base_dir |-> b, views |-> vw, additional_metadata |-> md]

NoCall == Args("box", "", 0, "", Root, None, None)
NoError == [step |-> "", kind |-> "", caught |-> FALSE]

project_dir(c) == Join(c.base_dir, c.name)
version_dir(c) == Join(project_dir(c), VersionDirName(c.version))
stl_filepath(c) == Join(version_dir(c), StlName(c.name))
svg_filepath(c, view_name) == Join(version_dir(c), SvgName(c.name, view_name))
doc_filename(c) == Join(version_dir(c), DocName(c.name))

(* Mutant: the views argument is ignored. *)
ExportViews_DefaultOnly(c) == DefaultViews

(* utils.py:43-50: the views export_cad_model renders. *)
ExportViews(c) == IF c.views.some THEN c.views.items ELSE DefaultViews

(* Mutant: the gallery lists the default view whatever the views argument. *)
DocViews_DefaultOnly(c) == DefaultViews

(* utils.py:102-109: the views the markdown gallery lists. *)
DocViews(c) == IF c.views.some THEN c.views.items ELSE DefaultViews

RECURSIVE Flatten(_)
Flatten(ss) == IF ss = <<>> THEN <<>> ELSE Head(ss) \o Flatten(Tail(ss))

(* The f.write calls of each section, each as the lines it adds. *)
(* Mutant: the header without the v of the version. *)
HeaderWrites_NoV(c) ==
    << <<"# " \o c.name \o " (" \o ToString(c.version) \o ")", "">> >>

HeaderWrites(c) ==
    << <<"# " \o c.name \o " (v" \o ToString(c.version) \o ")", "">> >>

DescriptionWrites(c) ==
    IF c.description # ""
    THEN << <<"## Description", c.description, "">> >>
    ELSE <<>>

MetadataBullet(kv) == <<"- **" \o kv[1] \o ":** " \o kv[2]>>

(* Mutant: only the first pair of additional_metadata is written. *)
MetadataWrites_FirstPairOnly(c, now) ==
    << <<"## Metadata", "">>,
       <<"- **Generated:** " \o Strftime(now)>>,
       <<"- **Model Name:** " \o c.name>>,
       <<"- **Version:** " \o ToString(c.version)>> >>
    \o (IF Truthy(c.additional_metadata)
        THEN << MetadataBullet(c.additional_metadata.items[1]) >>
        ELSE <<>>)
    \o << <<"">> >>

MetadataWrites(c, now) ==
    << <<"## Metadata", "">>,
       <<"- **Generated:** " \o Strftime(now)>>,
       <<"- **Model Name:** " \o c.name>>,
       <<"- **Version:** " \o ToString(c.version)>> >>
    \o (IF Truthy(c.additional_metadata)
        THEN [i \in 1..Len(c.additional_metadata.items) |->
                 MetadataBullet(c.additional_metadata.items[i])]
        ELSE <<>>)
    \o << <<"">> >>

FilesWrites(c) ==
    << <<"## Generated Files", "">>,
       <<"- STL File: [" \o StlName(c.name) \o "](./" \o StlName(c.name) \o ")">>,
       <<"- SVG Views:">> >>

ViewWrites(c, view) ==
    << <<"### " \o Title(view.name) \o " View">>,
       <<"![](./" \o SvgName(c.name, view.name) \o ")", "">> >>

ViewsWrites(c) ==
    << <<"", "## Model Views", "">> >>
    \o Flatten([i \in 1..Len(DocViews(c)) |-> ViewWrites(c, DocViews(c)[i])])

(* The code fence of utils.py:152 and 156 is three grave accents, a       *)
(* character the TLA+ lexer does not accept in a string.                   *)
Fence == "<code fence>"

DimensionsWrites(bbox) ==
    << <<"## Model Dimensions", "">>,
       <<Fence>>,
       <<"X: " \o Fmt2(bbox.xlen) \o " mm">>,
       <<"Y: " \o Fmt2(bbox.ylen) \o " mm">>,
       <<"Z: " \o Fmt2(bbox.zlen) \o " mm">>,
       <<Fence>> >>

----------------------------------------------------------------------------
(* Steps of an export call *)

Raise(step, kind) ==
    /\ pc' = "idle"
    /\ result' = "raised"
    /\ error' = [step |-> step, kind |-> kind, caught |-> FALSE]
    /\ todo' = <<>>

(* Entry of export_cad_model_with_docs with arguments c. *)
Begin(c) ==
    /\ pc' = "mkdir_base"
    /\ call' = c
    /\ result' = "none"
    /\ retval' = Root
    /\ error' = NoError
    /\ pre' = fs_files
    /\ written' = {}
    /\ todo' = <<>>
    /\ calls' = calls + 1
    /\ UNCHANGED fsVars

(* Path.mkdir(exist_ok=True) of p at step `step`, then on to `next`. *)
Mkdir(step, p, next) ==
    /\ pc = step
    /\ \E fault \in BOOLEAN :
         LET outcome == IF fault THEN "PermissionError" ELSE MkdirOutcome(p) IN
         IF outcome = "ok"
         THEN /\ fs_dirs' = fs_dirs \cup {p}
              /\ pc' = next
              /\ UNCHANGED <<result, error, todo>>
         ELSE /\ Raise(step, outcome)
              /\ UNCHANGED fs_dirs
    /\ UNCHANGED <<fs_files, call, retval, pre, written, calls, runVars>>

MkdirBase == Mkdir("mkdir_base", call.base_dir, "mkdir_project")
MkdirProject == Mkdir("mkdir_project", project_dir(call), "mkdir_version")
MkdirVersion == Mkdir("mkdir_version", version_dir(call), "export_stl")

(* Mutant: a file that exists is not exported again. *)
Export_SkipExisting(step, p, content, next, rest) ==
    /\ pc = step
    /\ \E fault \in BOOLEAN :
         LET outcome == IF fault THEN "ExportError" ELSE OpenOutcome(p) IN
         IF outcome = "ok"
         THEN /\ IF p \in DOMAIN fs_files
                 THEN UNCHANGED <<fs_files, written>>
                 ELSE /\ fs_files' = WriteFile(fs_files, p, content)
                      /\ written' = written \cup {p}
              /\ pc' = next
              /\ todo' = rest
              /\ UNCHANGED <<result, error>>
         ELSE /\ Raise(step, outcome)
              /\ UNCHANGED <<fs_files, written>>
    /\ UNCHANGED <<fs_dirs, call, retval, pre, calls, runVars>>

(* cq.exporters.export(model, path, ...): writes the file or raises. *)
Export(step, p, content, next, rest) ==
    /\ pc = step
    /\ \E fault \in BOOLEAN :
         LET outcome == IF fault THEN "ExportError" ELSE OpenOutcome(p) IN
         IF outcome = "ok"
         THEN /\ fs_files' = WriteFile(fs_files, p, content)
              /\ written' = written \cup {p}
              /\ pc' = next
              /\ todo' = rest
              /\ UNCHANGED <<result, error>>
         ELSE /\ Raise(step, outcome)
              /\ UNCHANGED <<fs_files, written>>
    /\ UNCHANGED <<fs_dirs, call, retval, pre, calls, runVars>>

(* utils.py:37-40, and the entry of the for loop of line 53. *)
ExportStl ==
    Export("export_stl", stl_filepath(call), StlContent(call.model),
           IF ExportViews(call) = <<>> THEN "open_doc" ELSE "export_svg",
           ExportViews(call))

(* utils.py:53-66: one iteration; after the last one export_cad_model returns. *)
ExportSvg ==
    /\ todo # <<>>
    /\ Export("export_svg", svg_filepath(call, Head(todo).name),
              SvgContent(call.model, Head(todo)),
              IF Tail(todo) = <<>> THEN "open_doc" ELSE "export_svg",
              Tail(todo))

(* The lines of the first k writes of a section. *)
Lines(writes, k) == Flatten(SubSeq(writes, 1, k))

(* The number of writes of a section that succeed: all of them, or those   *)
(* before the one that raises.                                             *)
FailPoints(writes) == 0..Len(writes)

Append_(files, p, lines) == WriteFile(files, p, files[p] \o lines)

(* utils.py:112-114: open(doc_filename, 'w') creates or truncates the file. *)
OpenDoc ==
    /\ pc = "open_doc"
    /\ \E fault \in BOOLEAN :
         LET outcome == IF fault THEN "PermissionError" ELSE OpenOutcome(doc_filename(call)) IN
         IF outcome = "ok"
         THEN /\ fs_files' = WriteFile(fs_files, doc_filename(call), <<>>)
              /\ written' = written \cup {doc_filename(call)}
              /\ pc' = "write_header"
              /\ UNCHANGED <<result, error, todo>>
         ELSE /\ Raise("open_doc", outcome)
              /\ UNCHANGED <<fs_files, written>>
    /\ UNCHANGED <<fs_dirs, call, retval, pre, calls, runVars>>

(* A run of f.write calls outside the try block: the k-th may raise, which *)
(* leaves the with block (closing the file) and the function.              *)
WriteSection(step, writes, next) ==
    /\ pc = step
    /\ \E k \in FailPoints(writes) :
         /\ fs_files' = Append_(fs_files, doc_filename(call), Lines(writes, k))
         /\ IF k = Len(writes)
            THEN pc' = next /\ UNCHANGED <<result, error, todo>>
            ELSE Raise(step, "OSError")
    /\ UNCHANGED <<fs_dirs, call, retval, pre, written, calls, runVars>>

WriteHeader == WriteSection("write_header", HeaderWrites(call), "write_description")
WriteDescription == WriteSection("write_description", DescriptionWrites(call), "write_metadata")
WriteMetadata == WriteSection("write_metadata", MetadataWrites(call, calls), "write_files")
WriteFiles == WriteSection("write_files", FilesWrites(call), "write_views")
WriteViews == WriteSection("write_views", ViewsWrites(call), "bbox")

(* Mutant: no try/except around the bounding box. *)
ComputeBBox_Uncaught ==
    /\ pc = "bbox"
    /\ \E outcome \in BBoxOutcomes :
         IF outcome = "ok"
         THEN pc' = "write_dimensions" /\ UNCHANGED <<error, result, todo>>
         ELSE Raise("bbox", outcome)
    /\ UNCHANGED <<fsVars, call, retval, pre, written, calls, runVars>>

(* utils.py:149-150, 157-158: model.val().BoundingBox() inside try/except. *)
ComputeBBox ==
    /\ pc = "bbox"
    /\ \E outcome \in BBoxOutcomes :
         IF outcome = "ok"
         THEN pc' = "write_dimensions" /\ UNCHANGED error
         ELSE /\ pc' = "close"
              /\ error' = [step |-> "bbox", kind |-> outcome, caught |-> TRUE]
    /\ UNCHANGED <<fsVars, call, todo, result, retval, pre, written, calls, runVars>>

(* utils.py:151-158: the writes of the dimensions section are inside the   *)
(* same try block, whose bare except catches whatever they raise.          *)
WriteDimensions ==
    /\ pc = "write_dimensions"
    /\ LET writes == DimensionsWrites(BoundingBox(call.model)) IN
       \E k \in FailPoints(writes) :
         /\ fs_files' = Append_(fs_files, doc_filename(call), Lines(writes, k))
         /\ IF k = Len(writes)
            THEN UNCHANGED error
            ELSE error' = [step |-> "write_dimensions", kind |-> "OSError", caught |-> TRUE]
    /\ pc' = "close"
    /\ UNCHANGED <<fs_dirs, call, todo, result, retval, pre, written, calls, runVars>>

(* utils.py:160-161 (and 71, 99): the with block closes the file and the   *)
(* call returns version_dir.                                               *)
Return ==
    /\ pc = "close"
    /\ pc' = "idle"
    /\ result' = "returned"
    /\ retval' = version_dir(call)
    /\ UNCHANGED <<fsVars, call, todo, error, pre, written, calls, runVars>>

export_cad_model == MkdirBase \/ MkdirProject \/ MkdirVersion \/ ExportStl \/ ExportSvg

export_cad_model_with_docs ==
    \/ export_cad_model
    \/ OpenDoc \/ WriteHeader \/ WriteDescription \/ WriteMetadata \/ WriteFiles
    \/ WriteViews \/ ComputeBBox \/ WriteDimensions \/ Return

(* A caller invokes export_cad_model_with_docs with arguments of its choice. *)
Call ==
    /\ pc = "idle"
    /\ run_pc = "idle"
    /\ calls < MaxCalls
    /\ \E m \in Models, d \in Descriptions, vw \in ViewArgs, md \in MetadataArgs :
         Begin(Args(m, target.name, target.version, d, target.base_dir, vw, md))
    /\ UNCHANGED runVars

----------------------------------------------------------------------------
(* The model base classes: name, version, run *)

(* os.path.splitext(os.path.basename(impl_file))[0] for the files in use. *)
Stem(impl_file) ==
    CASE impl_file = "scripts/massage-gun-attachment.py" -> "massage-gun-attachment"
      [] impl_file = "scripts/part.py" -> "part"
      [] OTHER -> impl_file

Instance(cls, name_from, impl_file, custom_name, version) ==
    [cls |-> cls, name_from |-> name_from, impl_file |-> impl_file,
     custom_name |-> custom_name, version |-> version]

(* A script's instance: a MassageGunAttachment, a model defined in         *)
(* scripts/part.py as a subclass of PrintableModelBase or of               *)
(* PrintableModel, the SimplePlate, and a HoleCover before and after its   *)
(* custom_name is assigned.                                                *)
Instances ==
    { Instance("PrintableModel", "file", "scripts/massage-gun-attachment.py", Unset, 2),
      Instance("PrintableModelBase", "file", "scripts/part.py", Unset, 1),
      Instance("PrintableModel", "file", "scripts/part.py", Unset, 1),
      Instance("PrintableModel", "const", "scripts/treadmill-cover.py", Unset, 1),
      Instance("PrintableModel", "attr", "scripts/treadmill-cover.py", Str("top_cover"), 1),
      Instance("PrintableModel", "attr", "scripts/treadmill-cover.py", Unset, 1) }

(* The name property: the stem of the implementing file (template.py:20-27, *)
(* model.py:19-24), a constant (SimplePlate), or the custom_name attribute  *)
(* (HoleCover), whose read raises AttributeError while it is unassigned.    *)
name(i) ==
    CASE i.name_from = "file" -> Str(Stem(i.impl_file))
      [] i.name_from = "const" -> Str("treadmil-cover")
      [] OTHER -> i.custom_name

version(i) == i.version

(* template.py:48: if os.getenv('SHOW_DISPLAY'). *)
PrintableModel_shows(e) == GetenvTruthy(e.SHOW_DISPLAY)

(* Mutant: the base class tests HIDE_DISPLAY the way SHOW_DISPLAY is tested. *)
PrintableModelBase_shows_SamePolarity(e) == GetenvTruthy(e.HIDE_DISPLAY)

(* model.py:28: if not os.getenv('HIDE_DISPLAY'). *)
PrintableModelBase_shows(e) == ~GetenvTruthy(e.HIDE_DISPLAY)

(* The condition of the if statement of run() of the instance's base class. *)
ShowsObject(cls, e) ==
    IF cls = "PrintableModel" THEN PrintableModel_shows(e) ELSE PrintableModelBase_shows(e)

RunRaise(step) ==
    /\ run_pc' = "raised"
    /\ run_error' = step

(* The script calls run() on its instance. *)
RunStart ==
    /\ run_pc \in {"idle", "done"}
    /\ pc = "idle"
    /\ calls < MaxCalls
    /\ run_pc' = "create"
    /\ run_error' = ""
    /\ created' = 0
    /\ displayed' = 0
    /\ exported' = <<>>
    /\ UNCHANGED <<fsVars, call, pc, todo, result, retval, error, pre, written,
                   calls, target, env, inst, modelVars>>

(* Mutant: create() reassigns the version of the instance. *)
Create_Reassigning ==
    /\ run_pc = "create"
    /\ created' = created + 1
    /\ inst' = [inst EXCEPT !.version = @ + 1]
    /\ \E ok \in BOOLEAN :
         IF ok
         THEN /\ run_pc' = IF ShowsObject(inst.cls, env) THEN "display" ELSE "export"
              /\ UNCHANGED run_error
         ELSE RunRaise("create")
    /\ UNCHANGED <<fsVars, call, pc, todo, result, retval, error, pre, written,
                   calls, target, env, modelVars, displayed, exported>>

(* Mutant: run goes from create to export without the display. *)
Create_NoDisplay ==
    /\ run_pc = "create"
    /\ created' = created + 1
    /\ \E ok \in BOOLEAN :
         IF ok
         THEN run_pc' = "export" /\ UNCHANGED run_error
         ELSE RunRaise("create")
    /\ UNCHANGED <<fsVars, call, pc, todo, result, retval, error, pre, written,
                   calls, target, env, inst, modelVars, displayed, exported>>

(* model = self.create(), which returns the solid or raises, followed by   *)
(* the test of the display toggle.                                         *)
Create ==
    /\ run_pc = "create"
    /\ created' = created + 1
    /\ \E ok \in BOOLEAN :
         IF ok
         THEN /\ run_pc' = IF ShowsObject(inst.cls, env) THEN "display" ELSE "export"
              /\ UNCHANGED run_error
         ELSE RunRaise("create")
    /\ UNCHANGED <<fsVars, call, pc, todo, result, retval, error, pre, written,
                   calls, target, env, inst, modelVars, displayed, exported>>

(* show_object(model): returns when the viewer is closed, or raises. *)
Display ==
    /\ run_pc = "display"
    /\ \E ok \in BOOLEAN :
         IF ok
         THEN /\ displayed' = displayed + 1
              /\ run_pc' = "export"
              /\ UNCHANGED run_error
         ELSE RunRaise("display") /\ UNCHANGED displayed
    /\ UNCHANGED <<fsVars, call, pc, todo, result, retval, error, pre, written,
                   calls, target, env, inst, modelVars, created, exported>>

(* export_cad_model_with_docs(model, self.name, self.version): the         *)
(* arguments are evaluated, then the call is entered with the defaults.    *)
RunExport ==
    /\ run_pc = "export"
    /\ pc = "idle"
    /\ exported = <<>>
    /\ IF name(inst).set
       THEN LET c == Args("box", name(inst).value, version(inst), "", <<"models">>,
                          None, None) IN
            /\ Begin(c)
            /\ exported' = <<c>>
            /\ UNCHANGED <<run_pc, run_error>>
       ELSE /\ RunRaise("name")
            /\ UNCHANGED <<fsVars, call, pc, todo, result, retval, error, pre,
                           written, calls, exported>>
    /\ UNCHANGED <<target, env, inst, modelVars, created, displayed>>

(* The export call has ended: run() returns, or the exception leaves it. *)
RunEnd ==
    /\ run_pc = "export"
    /\ pc = "idle"
    /\ exported # <<>>
    /\ IF result = "returned"
       THEN run_pc' = "done" /\ UNCHANGED run_error
       ELSE RunRaise("export")
    /\ UNCHANGED <<fsVars, call, pc, todo, result, retval, error, pre, written,
                   calls, target, env, inst, modelVars, created, displayed, exported>>

run == RunStart \/ Create \/ Display \/ RunExport \/ RunEnd

----------------------------------------------------------------------------
(* The model variants: __init__ and create()                               *)
(*                                                                         *)
(* Lengths of the variants below are integers in 1/1000 mm. A primitive is *)
(* the axis-aligned box that encloses it, and a solid is the primitives     *)
(* united (parts) and the primitives cut away (cuts).                      *)

MaxSections == 3
MaxInstances == 2
MaxCreates == 2

Box(x0, x1, y0, y1, z0, z1) ==
    [x0 |-> x0, x1 |-> x1, y0 |-> y0, y1 |-> y1, z0 |-> z0, z1 |-> z1]

(* Workplane("XY").rect(w, h).extrude(d): centred on the origin, from z = 0. *)
RectExtrude(w, h, d) == Box(0 - w \div 2, w \div 2, 0 - h \div 2, h \div 2, 0, d)

(* Workplane("XY").circle(r).extrude(d), by its enclosing box. *)
CircleExtrude(r, d) == Box(0 - r, r, 0 - r, r, 0, d)

(* Workplane("XY").sphere(r), by its enclosing box. *)
Sphere(r) == Box(0 - r, r, 0 - r, r, 0 - r, r)

(* .translate((dx, dy, dz)) *)
Translate(b, dx, dy, dz) ==
    Box(b.x0 + dx, b.x1 + dx, b.y0 + dy, b.y1 + dy, b.z0 + dz, b.z1 + dz)

NoSolid == [parts |-> <<>>, cuts |-> <<>>]
Solid(b) == [parts |-> <<b>>, cuts |-> <<>>]

(* a.union(b) and a.cut(b), b a single primitive. *)
Union(s, b) == [s EXCEPT !.parts = Append(@, b)]
Cut(s, b) == [s EXCEPT !.cuts = Append(@, b)]

Min(S) == CHOOSE x \in S : \A y \in S : x <= y
Max(S) == CHOOSE x \in S : \A y \in S : x >= y

(* solid.val().BoundingBox() of a solid whose cuts leave a part of every   *)
(* outer face: the extents of the hull of the parts.                       *)
Extents(s) ==
    LET P == {s.parts[i] : i \in 1..Len(s.parts)} IN
    [xlen |-> Max({p.x1 : p \in P}) - Min({p.x0 : p \in P}),
     ylen |-> Max({p.y1 : p \in P}) - Min({p.y0 : p \in P}),
     zlen |-> Max({p.z1 : p \in P}) - Min({p.z0 : p \in P})]

Section(diameter, length) == [diameter |-> diameter, length |-> length]

(* massage-gun-attachment.py:14-20 *)
DefaultSections ==
    << Section(18750, 11940), Section(18950, 2090), Section(18820, 5630),
       Section(23700, 1910), Section(23250, 30000) >>

(* The constructor arguments of a MassageGunAttachment. *)
MassageGunArgs(sections, inner_diameter, ball_diameter, ball_overlap) ==
    [cls |-> "MassageGunAttachment", sections |-> sections,
     inner_diameter |-> inner_diameter, ball_diameter |-> ball_diameter,
     ball_overlap |-> ball_overlap]

(* MassageGunAttachment.__init__: sections or [the default sections]. *)
MassageGunAttachment_init(a) ==
    [cls |-> a.cls,
     sections |-> IF Truthy(a.sections) THEN a.sections.items ELSE DefaultSections,
     inner_diameter |-> a.inner_diameter,
     ball_diameter |-> a.ball_diameter,
     ball_overlap |-> a.ball_overlap]

(* The constructor arguments of an iPadStand. *)
iPadStandArgs(ipad_width, clearance, wall_thickness, lip_height, grip_gap, base_width, base_length, base_height, spacer_width, spacer_length, spacer_height) ==
    [cls |-> "iPadStand", ipad_width |-> ipad_width, clearance |-> clearance,
     wall_thickness |-> wall_thickness, lip_height |-> lip_height,
     grip_gap |-> grip_gap, base_width |-> base_width,
     base_length |-> base_length, base_height |-> base_height,
     spacer_width |-> spacer_width, spacer_length |-> spacer_length,
     spacer_height |-> spacer_height]

(* iPadStand.__init__: the arguments create() reads, and the two           *)
(* calculated attributes.                                                  *)
iPadStand_init(a) ==
    LET total_mount_width == a.ipad_width + (2 * a.wall_thickness) + (2 * a.clearance) IN
    [cls |-> a.cls, wall_thickness |-> a.wall_thickness,
     lip_height |-> a.lip_height, grip_gap |-> a.grip_gap,
     base_width |-> a.base_width, base_length |-> a.base_length,
     base_height |-> a.base_height, spacer_width |-> a.spacer_width,
     spacer_length |-> a.spacer_length, spacer_height |-> a.spacer_height,
     total_mount_width |-> total_mount_width,
     connection_offset |-> total_mount_width \div 6]

(* The constructor arguments of an IpadStandClip. *)
IpadStandClipArgs(length, height, thickness, slot_width, slot_depth, fillet_radius) ==
    [cls |-> "IpadStandClip", length |-> length, height |-> height,
     thickness |-> thickness, slot_width |-> slot_width,
     slot_depth |-> slot_depth, fillet_radius |-> fillet_radius]

(* IpadStandClip.__init__ *)
IpadStandClip_init(a) ==
    [cls |-> a.cls, length |-> a.length, height |-> a.height,
     thickness |-> a.thickness, slot_width |-> a.slot_width,
     slot_depth |-> a.slot_depth, fillet_radius |-> a.fillet_radius,
     version |-> 1]

(* The dispatch of a constructor call on the class that is built. *)
Construct_(a) ==
    CASE a.cls = "MassageGunAttachment" -> MassageGunAttachment_init(a)
      [] a.cls = "iPadStand" -> iPadStand_init(a)
      [] OTHER -> IpadStandClip_init(a)

(* Caller-supplied section lists, and the constructor calls of the scripts *)
(* (the defaults) and of callers with parameters of their own.             *)
SectionChoices == {Section(18750, 11940), Section(23700, 1910)}
SectionLists == UNION {[1..n -> SectionChoices] : n \in 1..MaxSections}

MassageGunCalls ==
    {MassageGunArgs(s, 15000, 40000, 10000) :
        s \in {None, Some(<<>>)} \cup {Some(l) : l \in SectionLists}}

iPadStandCalls ==
    {iPadStandArgs(214900, 500, 2000, 10000, 200, 140000, 120000, 8000,
                   60000, 40000, 25000),
     iPadStandArgs(175000, 500, 2000, 12000, 200, 100000, 120000, 8000,
                   60000, 40000, 20000)}

IpadStandClipCalls ==
    {IpadStandClipArgs(15000, 2500, 4000, 2400, 3000, 300),
     IpadStandClipArgs(15000, 2500, 4000, 2400, 2000, 300)}

NoCtor == [args |-> [cls |-> ""], n |-> 0]
NoAttrs == [cls |-> ""]
NoFrame ==
    [pc |-> "idle", total_length |-> 0, current_length |-> 0, i |-> 0,
     result |-> NoSolid, slot |-> NoSolid]

exportVars == <<fsVars, call, pc, todo, result, retval, error, pre, written, calls>>
runState == <<target, env, inst, run_pc, run_error, created, displayed, exported>>
scriptVars == <<script_pc, runs>>

RECURSIVE SumLengths(_)
SumLengths(ss) == IF ss = <<>> THEN 0 ELSE Head(ss).length + SumLengths(Tail(ss))

(* The script builds another instance from the same arguments. *)
Construct ==
    /\ frame.pc = "idle"
    /\ ctor.n \in 1..(MaxInstances - 1)
    /\ attrs' = Construct_(ctor.args)
    /\ ctor' = [ctor EXCEPT !.n = @ + 1]
    /\ UNCHANGED <<exportVars, runState, scriptVars, frame, solids>>

(* instance.create() is called. *)
CreateCall ==
    /\ frame.pc = "idle"
    /\ ctor.n > 0
    /\ Len(solids) < MaxCreates
    /\ frame' = [NoFrame EXCEPT !.pc = "entry"]
    /\ UNCHANGED <<exportVars, runState, scriptVars, attrs, ctor, solids>>

(* return result *)
CreateReturn(s) ==
    /\ solids' = Append(solids, [instance |-> ctor.n, solid |-> s])
    /\ frame' = NoFrame

(* massage-gun-attachment.py:40-49: total_length, and the first section at *)
(* z = 0; self._sections[0] of an empty list raises IndexError.            *)
MassageGun_Base ==
    /\ frame.pc = "entry"
    /\ attrs.cls = "MassageGunAttachment"
    /\ LET sections == attrs.sections IN
       IF sections = <<>>
       THEN frame' = [frame EXCEPT !.pc = "raised"]
       ELSE frame' = [frame EXCEPT
                !.pc = "sections",
                !.total_length = SumLengths(sections),
                !.result = Solid(CircleExtrude(sections[1].diameter \div 2,
                                               sections[1].length)),
                !.current_length = 0 + sections[1].length,
                !.i = 2]
    /\ UNCHANGED <<exportVars, runState, scriptVars, attrs, ctor, solids>>

(* Mutant: the running offset is set to the section's length. *)
MassageGun_Section_NoSum ==
    /\ frame.pc = "sections"
    /\ frame.i <= Len(attrs.sections)
    /\ LET section == attrs.sections[frame.i]
           new_section == Translate(CircleExtrude(section.diameter \div 2, section.length),
                                    0, 0, frame.current_length)
       IN  frame' = [frame EXCEPT
                !.result = Union(@, new_section),
                !.current_length = section.length,
                !.i = @ + 1]
    /\ UNCHANGED <<exportVars, runState, scriptVars, attrs, ctor, solids>>

(* massage-gun-attachment.py:52-60: one iteration of the loop over         *)
(* self._sections[1:].                                                     *)
MassageGun_Section ==
    /\ frame.pc = "sections"
    /\ frame.i <= Len(attrs.sections)
    /\ LET section == attrs.sections[frame.i]
           new_section == Translate(CircleExtrude(section.diameter \div 2, section.length),
                                    0, 0, frame.current_length)
       IN  frame' = [frame EXCEPT
                !.result = Union(@, new_section),
                !.current_length = @ + section.length,
                !.i = @ + 1]
    /\ UNCHANGED <<exportVars, runState, scriptVars, attrs, ctor, solids>>

(* massage-gun-attachment.py:64-72: the loop has ended; the ball. *)
MassageGun_Ball ==
    /\ frame.pc = "sections"
    /\ frame.i > Len(attrs.sections)
    /\ LET ball_position ==
               frame.total_length - attrs.ball_overlap + (attrs.ball_diameter \div 2)
           ball == Translate(Sphere(attrs.ball_diameter \div 2), 0, 0, ball_position)
       IN  frame' = [frame EXCEPT !.pc = "hole", !.result = Union(@, ball)]
    /\ UNCHANGED <<exportVars, runState, scriptVars, attrs, ctor, solids>>

(* massage-gun-attachment.py:75-84: the inner hole is cut, the solid returned. *)
MassageGun_Hole ==
    /\ frame.pc = "hole"
    /\ LET main_hole == CircleExtrude(attrs.inner_diameter \div 2, frame.total_length + 1000)
       IN  CreateReturn(Cut(frame.result, main_hole))
    /\ UNCHANGED <<exportVars, runState, scriptVars, attrs, ctor>>

MassageGunAttachment_create ==
    MassageGun_Base \/ MassageGun_Section \/ MassageGun_Ball \/ MassageGun_Hole

(* ipad-stand.py:70-77, called at line 131: the base (the fillet of its    *)
(* vertical edges leaves the enclosing box as it is).                      *)
iPadStand_create_base ==
    /\ frame.pc = "entry"
    /\ attrs.cls = "iPadStand"
    /\ frame' = [frame EXCEPT
            !.pc = "spacer",
            !.result = Solid(RectExtrude(attrs.base_width, attrs.base_length,
                                         attrs.base_height))]
    /\ UNCHANGED <<exportVars, runState, scriptVars, attrs, ctor, solids>>

(* ipad-stand.py:79-88, called at line 132: the spacer on top of the base. *)
iPadStand_create_spacer ==
    /\ frame.pc = "spacer"
    /\ LET spacer == Translate(RectExtrude(attrs.spacer_width, attrs.spacer_length,
                                           attrs.spacer_height),
                               0, 0, attrs.base_height)
       IN  frame' = [frame EXCEPT !.pc = "mount", !.result = Union(@, spacer)]
    /\ UNCHANGED <<exportVars, runState, scriptVars, attrs, ctor, solids>>

(* ipad-stand.py:90-128: the solid with the mount plate and the two lips. *)
WithMount(a, assembly) ==
    LET mount_base ==
            Translate(RectExtrude(a.total_mount_width, a.spacer_length, a.wall_thickness),
                      a.connection_offset, 0, a.base_height + a.spacer_height)
        lip_thickness == a.wall_thickness + a.grip_gap
        left_lip ==
            Translate(RectExtrude(lip_thickness, a.spacer_length, a.lip_height),
                      a.connection_offset - a.total_mount_width \div 2 + lip_thickness \div 2,
                      0, a.base_height + a.spacer_height + a.wall_thickness)
        right_lip ==
            Translate(RectExtrude(lip_thickness, a.spacer_length, a.lip_height),
                      a.connection_offset + a.total_mount_width \div 2 - lip_thickness \div 2,
                      0, a.base_height + a.spacer_height + a.wall_thickness)
    IN  Union(Union(Union(assembly, mount_base), left_lip), right_lip)

(* Mutant: the mount step also grows the lip height it has just used. *)
iPadStand_create_mount_Growing ==
    /\ frame.pc = "mount"
    /\ CreateReturn(WithMount(attrs, frame.result))
    /\ attrs' = [attrs EXCEPT !.lip_height = @ + 1000]
    /\ UNCHANGED <<exportVars, runState, scriptVars, ctor>>

(* ipad-stand.py:133: return self._create_mount(with_spacer). *)
iPadStand_create_mount ==
    /\ frame.pc = "mount"
    /\ CreateReturn(WithMount(attrs, frame.result))
    /\ UNCHANGED <<exportVars, runState, scriptVars, attrs, ctor>>

iPadStand_create ==
    iPadStand_create_base \/ iPadStand_create_spacer \/ iPadStand_create_mount

(* ipad-stand-clip.py:54-60: the main body (the fillet of its vertical     *)
(* edges rounds the four corners within fillet_radius of them).            *)
IpadStandClip_body ==
    /\ frame.pc = "entry"
    /\ attrs.cls = "IpadStandClip"
    /\ frame' = [frame EXCEPT
            !.pc = "slot",
            !.result = Solid(RectExtrude(attrs.length, attrs.thickness, attrs.height))]
    /\ UNCHANGED <<exportVars, runState, scriptVars, attrs, ctor, solids>>

(* ipad-stand-clip.py:63-68: the cutout, moved by thickness/2 - slot_depth. *)
IpadStandClip_slot ==
    /\ frame.pc = "slot"
    /\ frame' = [frame EXCEPT
            !.pc = "cut",
            !.slot = Solid(Translate(RectExtrude(attrs.length - 2000, attrs.slot_width,
                                                 attrs.height),
                                     0, attrs.thickness \div 2 - attrs.slot_depth, 0))]
    /\ UNCHANGED <<exportVars, runState, scriptVars, attrs, ctor, solids>>

(* ipad-stand-clip.py:71-73: clip = main_body.cut(slot); return clip. *)
IpadStandClip_cut ==
    /\ frame.pc = "cut"
    /\ CreateReturn(Cut(frame.result, frame.slot.parts[1]))
    /\ UNCHANGED <<exportVars, runState, scriptVars, attrs, ctor>>

IpadStandClip_create == IpadStandClip_body \/ IpadStandClip_slot \/ IpadStandClip_cut

----------------------------------------------------------------------------
(* scripts/treadmill-cover.py: the plate, its hole covers, and the script  *)
(*                                                                         *)
(* Lengths of the plate and of the covers are integers in 1/100000 mm, the *)
(* unit in which the products of the script (0.425 * 156.35) are exact.    *)

(* k/1000 * x, for x a whole number of 1/100 mm. *)
Times(k, x) == k * (x \div 1000)

(* The constructor arguments of a SimplePlate. *)
SimplePlateArgs(length, width, base_thickness, total_thickness, hole_clearance, edge_clearance, lip_extension, bottom_lip, rim_thickness, rim_depth) ==
    [cls |-> "SimplePlate", length |-> length, width |-> width,
     base_thickness |-> base_thickness, total_thickness |-> total_thickness,
     hole_clearance |-> hole_clearance, edge_clearance |-> edge_clearance,
     lip_extension |-> lip_extension, bottom_lip |-> bottom_lip,
     rim_thickness |-> rim_thickness, rim_depth |-> rim_depth]

(* treadmill-cover.py:21-30: SimplePlate() *)
SimplePlateDefaults ==
    SimplePlateArgs(15635000, 7763000, 300000, 600000, 20000, 150000, 150000,
                    50000, 100000, 100000)

(* The width and height of a HoleSpec; its position is not modelled. *)
HoleSpec(width, height) == [width |-> width, height |-> height]

(* SimplePlate.__init__: the five holes are top left, top right, bottom    *)
(* left, bottom middle, bottom right.                                      *)
SimplePlate_init(a) ==
    LET bottom_hole_extension == a.lip_extension - a.bottom_lip IN
    [cls |-> a.cls, length |-> a.length, width |-> a.width,
     base_thickness |-> a.base_thickness, total_thickness |-> a.total_thickness,
     rim_thickness |-> a.rim_thickness, rim_depth |-> a.rim_depth,
     upper_section_height |-> a.total_thickness - a.base_thickness,
     top_layer_length |-> a.length + (a.lip_extension * 2),
     top_layer_width |-> a.width + (a.lip_extension * 2),
     holes |->
       << HoleSpec(Times(425, a.length) + a.hole_clearance,
                   Times(248, a.width) + a.hole_clearance),
          HoleSpec(Times(425, a.length) + a.hole_clearance,
                   Times(248, a.width) + a.hole_clearance),
          HoleSpec(Times(269, a.length) + a.hole_clearance,
                   Times(208, a.width) + a.hole_clearance + bottom_hole_extension),
          HoleSpec(Times(373, a.length) + a.hole_clearance,
                   Times(208, a.width) + a.hole_clearance + bottom_hole_extension),
          HoleSpec(Times(269, a.length) + a.hole_clearance,
                   Times(208, a.width) + a.hole_clearance + bottom_hole_extension) >>]

(* treadmill-cover.py:140: the depth of the blind cut of each hole. *)
SimplePlate_cutBlind(p) == p.total_thickness - p.rim_depth

(* The constructor arguments of a HoleCover. *)
HoleCoverArgs(hole_width, hole_height, plate_thickness, rim_depth, clearance) ==
    [cls |-> "HoleCover", hole_width |-> hole_width, hole_height |-> hole_height,
     plate_thickness |-> plate_thickness, rim_depth |-> rim_depth,
     clearance |-> clearance]

(* Mutant: the cover is as thick as the plate. *)
HoleCover_init_PlateThick(a) ==
    [cls |-> a.cls, hole_width |-> a.hole_width, hole_height |-> a.hole_height,
     cover_thickness |-> a.plate_thickness,
     clearance |-> a.clearance,
     insert_width |-> a.hole_width - (a.clearance * 2),
     insert_height |-> a.hole_height - (a.clearance * 2)]

(* HoleCover.__init__ (the handle is left out). *)
HoleCover_init(a) ==
    [cls |-> a.cls, hole_width |-> a.hole_width, hole_height |-> a.hole_height,
     cover_thickness |-> a.plate_thickness - a.rim_depth,
     clearance |-> a.clearance,
     insert_width |-> a.hole_width - (a.clearance * 2),
     insert_height |-> a.hole_height - (a.clearance * 2)]

Statement(op, var, args, value) == [op |-> op, var |-> var, args |-> args, value |-> value]

(* treadmill-cover.py:209-245, statement by statement; clearance is the    *)
(* default of HoleCover.__init__.                                          *)
Script ==
    << Statement("new", "plate_model", SimplePlateDefaults, ""),
       Statement("run", "plate_model", NoAttrs, ""),
       Statement("new", "top_cover",
                 HoleCoverArgs(Times(425, 15635000) + 20000, Times(248, 7763000) + 20000,
                               600000, 100000, 15000), ""),
       Statement("set", "top_cover", NoAttrs, "top_cover"),
       Statement("run", "top_cover", NoAttrs, ""),
       Statement("run", "top_cover", NoAttrs, ""),
       Statement("new", "bottom_side_cover",
                 HoleCoverArgs(Times(269, 15635000) + 20000,
                               Times(208, 7763000) + 20000 + 100000,
                               600000, 100000, 15000), ""),
       Statement("set", "bottom_side_cover", NoAttrs, "bottom_side_cover"),
       Statement("run", "bottom_side_cover", NoAttrs, ""),
       Statement("run", "bottom_side_cover", NoAttrs, ""),
       Statement("new", "bottom_middle_cover",
                 HoleCoverArgs(Times(373, 15635000) + 20000,
                               Times(208, 7763000) + 20000 + 100000,
                               600000, 100000, 15000), ""),
       Statement("set", "bottom_middle_cover", NoAttrs, "bottom_middle_cover"),
       Statement("run", "bottom_middle_cover", NoAttrs, "") >>

AtStatement(op) ==
    /\ script_pc \in 1..Len(Script)
    /\ Script[script_pc].op = op
    /\ run_pc \in {"idle", "done"}
    /\ pc = "idle"

(* x = SimplePlate() or x = HoleCover(...): the instance, whose name is    *)
(* the constant of SimplePlate or the custom_name attribute, not yet set.  *)
ScriptNew ==
    /\ AtStatement("new")
    /\ LET a == Script[script_pc].args IN
       /\ inst' = Instance("PrintableModel",
                           IF a.cls = "SimplePlate" THEN "const" ELSE "attr",
                           "scripts/treadmill-cover.py", Unset, 1)
       /\ attrs' = IF a.cls = "SimplePlate" THEN SimplePlate_init(a) ELSE HoleCover_init(a)
    /\ script_pc' = script_pc + 1
    /\ UNCHANGED <<exportVars, target, env, run_pc, run_error, created, displayed,
                   exported, frame, solids, ctor, runs>>

(* Mutant: the assignment of custom_name is left out. *)
ScriptAssign_Skipped ==
    /\ AtStatement("set")
    /\ script_pc' = script_pc + 1
    /\ UNCHANGED <<exportVars, runState, attrs, frame, solids, ctor, runs>>

(* x.custom_name = "..." *)
ScriptAssign ==
    /\ AtStatement("set")
    /\ inst' = [inst EXCEPT !.custom_name = Str(Script[script_pc].value)]
    /\ script_pc' = script_pc + 1
    /\ UNCHANGED <<exportVars, target, env, run_pc, run_error, created, displayed,
                   exported, attrs, frame, solids, ctor, runs>>

(* x.run(): the call is entered; the script goes on when it has returned   *)
(* and ends with the exception when it has raised.                         *)
ScriptRun ==
    /\ AtStatement("run")
    /\ run_pc' = "create"
    /\ run_error' = ""
    /\ created' = 0
    /\ displayed' = 0
    /\ exported' = <<>>
    /\ runs' = Append(runs, Script[script_pc].var)
    /\ script_pc' = script_pc + 1
    /\ UNCHANGED <<exportVars, target, env, inst, attrs, frame, solids, ctor>>

----------------------------------------------------------------------------
(* Initial states *)

NoFiles == [p \in {} |-> <<>>]

EmptyFs == [dirs |-> {Root}, files |-> NoFiles]

(* A working directory holding an earlier tree: a user's file in           *)
(* out/models/gadget/v2, and a plain file named models.                    *)
UsedFs ==
    [dirs |-> {Root, <<"out">>, <<"out", "models">>, <<"out", "models", "gadget">>,
               <<"out", "models", "gadget", "v2">>},
     files |-> WriteFile(WriteFile(NoFiles, <<"models">>, <<"not a directory">>),
                         <<"out", "models", "gadget", "v2", "notes.txt">>, <<"keep me">>)]

InitialFs == {EmptyFs, UsedFs}

NoEnv == [SHOW_DISPLAY |-> Unset, HIDE_DISPLAY |-> Unset]
NoInst == [cls |-> "", name_from |-> "", impl_file |-> "", custom_name |-> Unset,
           version |-> 0]
NoTarget == Target(Root, "", 0)

InitExport(f) ==
    /\ fs_dirs = f.dirs
    /\ fs_files = f.files
    /\ call = NoCall
    /\ pc = "idle"
    /\ todo = <<>>
    /\ result = "none"
    /\ retval = Root
    /\ error = NoError
    /\ pre = NoFiles
    /\ written = {}
    /\ calls = 0

(* No create() is executing and no script statement has been reached. *)
InitModel(a) ==
    /\ ctor = NoCtor
    /\ attrs = a
    /\ frame = NoFrame
    /\ solids = <<>>
    /\ script_pc = 0
    /\ runs = <<>>

Init ==
    /\ \E f \in InitialFs : InitExport(f)
    /\ target \in Targets
    /\ env = NoEnv
    /\ inst = NoInst
    /\ run_pc = "idle"
    /\ run_error = ""
    /\ created = 0
    /\ displayed = 0
    /\ exported = <<>>
    /\ InitModel(NoAttrs)

Next == Call \/ export_cad_model_with_docs

Spec == Init /\ [][Next]_vars

(* The attributes of the instances of Instances, built with the arguments *)
(* of their scripts.                                                       *)
AttrsOf(i) ==
    CASE i.impl_file = "scripts/massage-gun-attachment.py" ->
             MassageGunAttachment_init(MassageGunArgs(None, 15000, 40000, 10000))
      [] i.name_from = "const" -> SimplePlate_init(Script[1].args)
      [] i.name_from = "attr" -> HoleCover_init(Script[3].args)
      [] OTHER -> NoAttrs

(* A script that builds one instance and calls run() on it. *)
EnvValues == {Unset, Str(""), Str("1")}

InitRun ==
    /\ \E f \in InitialFs : InitExport(f)
    /\ target = NoTarget
    /\ env \in [SHOW_DISPLAY : EnvValues, HIDE_DISPLAY : EnvValues]
    /\ inst \in Instances
    /\ run_pc = "idle"
    /\ run_error = ""
    /\ created = 0
    /\ displayed = 0
    /\ exported = <<>>
    /\ InitModel(AttrsOf(inst))

NextRun == run \/ export_cad_model_with_docs

SpecRun == InitRun /\ [][NextRun]_vars

(* A script that builds instances of one variant from one set of arguments *)
(* and calls create() on them.                                             *)
InitCreate ==
    /\ InitExport(EmptyFs)
    /\ target = NoTarget
    /\ env = NoEnv
    /\ inst = NoInst
    /\ run_pc = "idle"
    /\ run_error = ""
    /\ created = 0
    /\ displayed = 0
    /\ exported = <<>>
    /\ \E a \in MassageGunCalls \cup iPadStandCalls \cup IpadStandClipCalls :
         /\ ctor = [args |-> a, n |-> 1]
         /\ attrs = Construct_(a)
    /\ frame = NoFrame
    /\ solids = <<>>
    /\ script_pc = 0
    /\ runs = <<>>

NextCreate ==
    \/ Construct
    \/ CreateCall
    \/ MassageGunAttachment_create
    \/ iPadStand_create
    \/ IpadStandClip_create

SpecCreate == InitCreate /\ [][NextCreate]_vars

(* scripts/treadmill-cover.py run as a program, the output root empty. *)
InitScript ==
    /\ InitExport(EmptyFs)
    /\ target = NoTarget
    /\ env \in [SHOW_DISPLAY : EnvValues, HIDE_DISPLAY : EnvValues]
    /\ inst = NoInst
    /\ run_pc = "idle"
    /\ run_error = ""
    /\ created = 0
    /\ displayed = 0
    /\ exported = <<>>
    /\ ctor = NoCtor
    /\ attrs = NoAttrs
    /\ frame = NoFrame
    /\ solids = <<>>
    /\ script_pc = 1
    /\ runs = <<>>

NextScript ==
    \/ ScriptNew \/ ScriptAssign \/ ScriptRun
    \/ Create \/ Display \/ RunExport \/ RunEnd
    \/ export_cad_model_with_docs

SpecScript == InitScript /\ [][NextScript]_vars

----------------------------------------------------------------------------
(* Properties of the export pipeline *)

Returned == pc = "idle" /\ result = "returned"

(* The files a call writes: the mesh, one projection per view, the document. *)
TargetFiles(c) ==
    {stl_filepath(c), doc_filename(c)}
    \cup {svg_filepath(c, ExportViews(c)[i].name) : i \in 1..Len(ExportViews(c))}

(* The view names the caller asked for, the default being the view front. *)
RequestedViews(c) ==
    IF c.views.some THEN {c.views.items[i].name : i \in 1..Len(c.views.items)}
    ELSE {"front"}

Has(lines, x) == \E i \in 1..Len(lines) : lines[i] = x
IndexOf(lines, x) == CHOOSE i \in 1..Len(lines) : lines[i] = x /\ \A j \in 1..(i - 1) : lines[j] # x

(* C1: a call that returns has returned the directory B/N/vV, which exists  *)
(* and holds exactly one .stl file, N.stl, exactly one .md file, N.md, and *)
(* N_<view>.svg for each requested view, the call having written exactly   *)
(* one .svg file per requested view.                                       *)
C1_ExportProducesArtifacts ==
    Returned =>
        LET d == <<>> \o call.base_dir \o <<call.name, "v" \o ToString(call.version)>>
            files == FilesIn(fs_files, d)
        IN  /\ retval = d
            /\ d \in fs_dirs
            /\ {p \in files : IsStl(Basename(p))} = {Join(d, call.name \o ".stl")}
            /\ {p \in files : IsDoc(Basename(p))} = {Join(d, call.name \o ".md")}
            /\ \A v \in RequestedViews(call) :
                   Join(d, call.name \o "_" \o v \o ".svg") \in files
            /\ {p \in written : IsSvg(Basename(p))}
                   = {Join(d, call.name \o "_" \o v \o ".svg") : v \in RequestedViews(call)}

C1_Witness ==
    /\ Returned
    /\ call.views.some /\ Len(call.views.items) = 2
    /\ call.base_dir = <<"out", "models">>

(* C2: the markdown file a call has written starts with the header line    *)
(* "# N (vV)", whatever the description, the views, the additional         *)
(* metadata and the outcome of the bounding box; a call that returns has   *)
(* written it.                                                             *)
C2_HeaderFirst ==
    /\ (doc_filename(call) \in written /\ fs_files[doc_filename(call)] # <<>>)
           => fs_files[doc_filename(call)][1]
                  = "# " \o call.name \o " (v" \o ToString(call.version) \o ")"
    /\ Returned => (doc_filename(call) \in written /\ fs_files[doc_filename(call)] # <<>>)

C2_Witness ==
    /\ Returned
    /\ call.description # ""
    /\ Truthy(call.additional_metadata)
    /\ error.step = "bbox"

(* C3: when additional_metadata is supplied, the document of a call that   *)
(* returns has, after the "## Metadata" heading and the bullets Generated, *)
(* Model Name and Version, one line "- **key:** value" per pair, in order, *)
(* and nothing else up to the blank line before "## Generated Files".      *)
C3_MetadataBullets ==
    (Returned /\ call.additional_metadata.some) =>
        LET md == fs_files[doc_filename(call)]
            pairs == call.additional_metadata.items
            n == Len(pairs)
        IN  /\ Has(md, "## Metadata")
            /\ Has(md, "## Generated Files")
            /\ LET m == IndexOf(md, "## Metadata")
                   g == IndexOf(md, "## Generated Files")
               IN  /\ md[m + 1] = ""
                   /\ md[m + 2] = "- **Generated:** " \o Strftime(calls)
                   /\ md[m + 3] = "- **Model Name:** " \o call.name
                   /\ md[m + 4] = "- **Version:** " \o ToString(call.version)
                   /\ \A i \in 1..n :
                          md[m + 4 + i] = "- **" \o pairs[i][1] \o ":** " \o pairs[i][2]
                   /\ md[m + 4 + n + 1] = ""
                   /\ g = m + 4 + n + 2

C3_Witness ==
    /\ Returned
    /\ call.additional_metadata.some
    /\ Len(call.additional_metadata.items) = 2

(* C4: a failure of the bounding-box computation is caught: the call does  *)
(* not raise, and when it has returned the document holds the header, the  *)
(* metadata, generated-files and model-views sections and no               *)
(* "## Model Dimensions" line.                                             *)
C4_BBoxFailureSwallowed ==
    error.step = "bbox" =>
        /\ error.caught
        /\ result # "raised"
        /\ pc \in {"close", "idle"}
        /\ pc = "idle" =>
              LET md == fs_files[doc_filename(call)] IN
              /\ result = "returned"
              /\ md[1] = "# " \o call.name \o " (v" \o ToString(call.version) \o ")"
              /\ Has(md, "## Metadata")
              /\ Has(md, "## Generated Files")
              /\ Has(md, "## Model Views")
              /\ ~Has(md, "## Model Dimensions")

C4_Witness ==
    /\ Returned
    /\ error.step = "bbox"
    /\ calls = 2
    /\ doc_filename(call) \in DOMAIN pre
    /\ Has(pre[doc_filename(call)], "## Model Dimensions")

MkdirSteps == {"mkdir_base", "mkdir_project", "mkdir_version"}

(* The path the mkdir of a step is given. *)
MkdirPath(step) ==
    CASE step = "mkdir_base" -> call.base_dir
      [] step = "mkdir_project" -> project_dir(call)
      [] step = "mkdir_version" -> version_dir(call)

(* The projections of the first k views of the call. *)
SvgPrefix(c, k) == {svg_filepath(c, ExportViews(c)[i].name) : i \in 1..k}

(* C5: every failure other than that of the bounding-box computation       *)
(* leaves the call as an exception, and nothing is written after it: a     *)
(* failed STL export leaves no file written, a failed SVG export leaves    *)
(* the mesh and the projections before it and no document.                 *)
C5_FailuresPropagate ==
    /\ (pc = "idle" /\ error.step \notin {"", "bbox"}) => result = "raised"
    /\ (result = "raised" /\ error.step \in MkdirSteps \cup {"export_stl"}) => written = {}
    /\ (result = "raised" /\ error.step = "export_svg") =>
           \E k \in 0..(Len(ExportViews(call)) - 1) :
               written = {stl_filepath(call)} \cup SvgPrefix(call, k)

(* C6: a call that finds base_dir absent creates it, the only failures of  *)
(* that step being the system's refusal (permission, or a file in the      *)
(* way); and no file is written before base_dir, the project directory     *)
(* and the version directory exist.                                        *)
C6_DirectoriesCreatedFirst ==
    /\ (result = "raised" /\ error.step = "mkdir_base")
           => error.kind \in {"PermissionError", "FileExistsError", "NotADirectoryError"}
    /\ written # {}
           => {call.base_dir, project_dir(call), version_dir(call)} \subseteq fs_dirs

(* C7: a call into an existing directory is not refused for its existing   *)
(* (mkdir raises FileExistsError only for a path that is a file), no file  *)
(* that was there before the call and is none of N.stl, N_<view>.svg of    *)
(* the call's views, N.md is deleted or changed at any point of the call,  *)
(* and a call that returns has written each of those files.                *)
C7_ExistingDirectoryKept ==
    /\ \A p \in DOMAIN pre :
           p \notin TargetFiles(call) => (p \in DOMAIN fs_files /\ fs_files[p] = pre[p])
    /\ (result = "raised" /\ error.step \in MkdirSteps /\ error.kind = "FileExistsError")
           => MkdirPath(error.step) \in DOMAIN fs_files
    /\ Returned => \A p \in TargetFiles(call) : p \in written

C7_Witness ==
    /\ Returned
    /\ version_dir(call) \in {Parent(p) : p \in DOMAIN pre}
    /\ stl_filepath(call) \in DOMAIN pre
    /\ \E p \in DOMAIN pre :
          /\ Parent(p) = version_dir(call)
          /\ IsSvg(Basename(p))
          /\ p \notin TargetFiles(call)
          /\ p \in DOMAIN fs_files

(* C8: a call that returns has written the mesh, every requested           *)
(* projection and the document, each with what this call generated (the    *)
(* document carries this call's timestamp), whether or not they existed;   *)
(* and when they all existed before, as after an export with the same      *)
(* arguments, the call leaves the set of files as it was.                  *)
C8_Regenerated ==
    Returned =>
        /\ written = TargetFiles(call)
        /\ fs_files[stl_filepath(call)] = StlContent(call.model)
        /\ \A i \in 1..Len(ExportViews(call)) :
               fs_files[svg_filepath(call, ExportViews(call)[i].name)]
                   = SvgContent(call.model, ExportViews(call)[i])
        /\ Has(fs_files[doc_filename(call)], "- **Generated:** " \o Strftime(calls))
        /\ TargetFiles(call) \subseteq DOMAIN pre => DOMAIN fs_files = DOMAIN pre

C8_Witness ==
    /\ Returned
    /\ calls = 2
    /\ TargetFiles(call) = {p \in DOMAIN pre : Parent(p) = version_dir(call)}
    /\ ~Has(pre[doc_filename(call)], "- **Generated:** " \o Strftime(calls))

----------------------------------------------------------------------------
(* Properties of run *)

(* C9: run calls create once, then show_object when the toggle enables it, *)
(* then export: export is not entered before create has returned and,      *)
(* when display is enabled, before show_object has returned; a run in      *)
(* which create, show_object and the name property return enters export    *)
(* once, with the instance's name and version, whatever the toggle.        *)
C9_RunOrder ==
    /\ created <= 1
    /\ run_pc \in {"display", "export", "done"} => created = 1
    /\ run_pc = "display" => (exported = <<>> /\ pc = "idle" /\ displayed = 0)
    /\ (exported # <<>> \/ pc # "idle") =>
           /\ created = 1
           /\ displayed = IF ShowsObject(inst.cls, env) THEN 1 ELSE 0
           /\ Len(exported) = 1
           /\ name(inst).set
           /\ exported[1].name = name(inst).value
           /\ exported[1].version = inst.version
    /\ run_pc = "done" => (exported # <<>> /\ result = "returned")
    /\ (run_pc = "raised" /\ exported = <<>>) => run_error \in {"create", "display", "name"}

C9_Witness ==
    /\ run_pc = "done"
    /\ displayed = 1
    /\ calls = 2

(* C10: PrintableModel.run displays exactly when SHOW_DISPLAY is set and   *)
(* not empty, PrintableModelBase.run exactly when HIDE_DISPLAY is unset or *)
(* empty; in every environment both call export with the same arguments,   *)
(* which depend on the instance's name and version alone.                  *)
C10_TogglePolarity ==
    /\ (run_pc \in {"export", "done"} \/ run_error \in {"name", "export"}) =>
           /\ inst.cls = "PrintableModel" =>
                  (displayed = 1 <=> (env.SHOW_DISPLAY.set /\ env.SHOW_DISPLAY.value # ""))
           /\ inst.cls = "PrintableModelBase" =>
                  (displayed = 1 <=> (~env.HIDE_DISPLAY.set \/ env.HIDE_DISPLAY.value = ""))
           /\ displayed \in {0, 1}
    /\ exported # <<>> =>
           exported = << Args("box", name(inst).value, inst.version, "", <<"models">>,
                              None, None) >>

C10_Witness ==
    /\ run_pc = "done"
    /\ env = NoEnv
    /\ inst.cls = "PrintableModelBase"
    /\ displayed = 1

----------------------------------------------------------------------------
(* References of the generated markdown *)

(* The file a relative reference ./f of the document resolves to. *)
Resolve(c, f) == Join(Parent(doc_filename(c)), f)

StlLink(n) == "- STL File: [" \o StlName(n) \o "](./" \o StlName(n) \o ")"
SvgImage(n, v) == "![](./" \o SvgName(n, v) \o ")"

(* C11: in the document of a call that returns, the files index links      *)
(* ./N.stl and every link or image reference resolves to a file the same   *)
(* call wrote into the directory of the document; the gallery references   *)
(* ./N_<view>.svg for exactly the views whose SVG the call exported,        *)
(* whether views was omitted, empty or supplied.                           *)
C11_ReferencesResolve ==
    Returned =>
        LET md == fs_files[doc_filename(call)] IN
        /\ Has(md, StlLink(call.name))
        /\ \A n \in AllNames :
               Has(md, StlLink(n)) =>
                   /\ Resolve(call, StlName(n)) \in written
                   /\ Resolve(call, StlName(n)) \in DOMAIN fs_files
        /\ \A n \in AllNames, v \in ViewNames :
               Has(md, SvgImage(n, v)) <=>
                   /\ n = call.name
                   /\ Resolve(call, SvgName(n, v)) \in written
                   /\ Resolve(call, SvgName(n, v)) \in DOMAIN fs_files

(* A second call with an empty views argument, into a directory that still *)
(* holds the front projection of the first call.                           *)
C11_Witness ==
    /\ Returned
    /\ calls = 2
    /\ call.views = Some(<<>>)
    /\ svg_filepath(call, "front") \in DOMAIN fs_files
    /\ svg_filepath(call, "front") \notin written

----------------------------------------------------------------------------
(* Properties of the model variants *)

(* C12: no step of run(), create() included, changes an attribute of the   *)
(* instance (the parameters, the version, the custom name), and create()   *)
(* writes no file, makes no directory and displays nothing.                *)
C12_CreateRunFrame ==
    [][ /\ inst' = inst
        /\ attrs' = attrs
        /\ (run_pc = "create" => UNCHANGED <<fs_dirs, fs_files, displayed>>) ]_vars

(* A run of the massage gun attachment that displayed and exported. *)
C12_Witness ==
    /\ run_pc = "done"
    /\ created = 1
    /\ displayed = 1
    /\ attrs.cls = "MassageGunAttachment"
    /\ attrs = AttrsOf(inst)
    /\ doc_filename(call) \in DOMAIN fs_files

(* C13: from construction onward every access to the name of an instance   *)
(* succeeds, so that no run ends with the exception of reading it, and the *)
(* name a run exports under is the name of the instance.                   *)
C13_NameStable ==
    /\ run_error # "name"
    /\ exported # <<>> => (name(inst).set /\ exported[1].name = name(inst).value)

(* C14: the solids that create() returned for one set of constructor       *)
(* arguments, on one instance or on two, have the same bounding-box        *)
(* extents.                                                                *)
C14_CreateDeterministic ==
    \A i, j \in 1..Len(solids) :
        Extents(solids[i].solid) = Extents(solids[j].solid)

(* Two iPad stands built from the same arguments, create() called on each. *)
C14_Witness ==
    /\ Len(solids) = 2
    /\ solids[1].instance # solids[2].instance
    /\ ctor.args.cls = "iPadStand"

(* C16: in MassageGunAttachment.create, section k is placed at the sum of  *)
(* the lengths of the sections before it, and when the loop has ended the  *)
(* running offset is total_length and every section is placed; the         *)
(* sections are the caller's list when it is non-empty and the five        *)
(* default sections when it is empty or omitted.                           *)
C16_SectionOffsets ==
    attrs.cls = "MassageGunAttachment" =>
        LET sections == attrs.sections
            placed == Min({Len(frame.result.parts), Len(sections)})
            ended == (frame.pc = "sections" /\ frame.i > Len(sections)) \/ frame.pc = "hole"
        IN  /\ attrs.sections = IF Truthy(ctor.args.sections)
                                THEN ctor.args.sections.items
                                ELSE DefaultSections
            /\ Len(DefaultSections) = 5
            /\ frame.pc # "raised"
            /\ frame.pc \in {"sections", "hole"} =>
                   \A k \in 1..placed :
                       frame.result.parts[k].z0 = SumLengths(SubSeq(sections, 1, k - 1))
            /\ ended => (frame.current_length = frame.total_length /\ placed = Len(sections))

(* The loop has ended on a caller's list of three sections, not all alike. *)
C16_Witness ==
    /\ attrs.cls = "MassageGunAttachment"
    /\ frame.pc = "hole"
    /\ ctor.args.sections.some
    /\ Len(ctor.args.sections.items) = 3
    /\ ctor.args.sections.items[1] # ctor.args.sections.items[2]

----------------------------------------------------------------------------
(* The slot of the clip *)

(* The part of the box b that the box c covers. *)
Intersect(b, c) ==
    Box(Max({b.x0, c.x0}), Min({b.x1, c.x1}), Max({b.y0, c.y0}), Min({b.y1, c.y1}),
        Max({b.z0, c.z0}), Min({b.z1, c.z1}))

(* The intervals between neighbouring coordinates of X. *)
Intervals(X) == {iv \in X \X X : iv[1] < iv[2] /\ ~\E c \in X : iv[1] < c /\ c < iv[2]}

(* The cells of the plan of the body b that the cut-out r leaves. *)
Remaining(b, r) ==
    {c \in Intervals({b.x0, b.x1, r.x0, r.x1}) \X Intervals({b.y0, b.y1, r.y0, r.y1}) :
        ~(r.x0 <= c[1][1] /\ c[1][2] <= r.x1 /\ r.y0 <= c[2][1] /\ c[2][2] <= r.y1)}

(* Two cells share an edge. *)
Adjacent(c, d) ==
    \/ c[1] = d[1] /\ (c[2][2] = d[2][1] \/ d[2][2] = c[2][1])
    \/ c[2] = d[2] /\ (c[1][2] = d[1][1] \/ d[1][2] = c[1][1])

RECURSIVE Reach(_, _, _)
Reach(S, cells, n) ==
    IF n = 0 THEN S
    ELSE Reach(S \cup {d \in cells : \E c \in S : Adjacent(c, d)}, cells, n - 1)

Connected(cells) ==
    cells # {} /\ Reach({CHOOSE c \in cells : TRUE}, cells, Cardinality(cells)) = cells

(* How far the cut-out r reaches into the body b from each face of b that  *)
(* it opens.                                                               *)
OpenDepths(b, r) ==
    {r.y1 - b.y0 : y \in {b.y0} \cap {r.y0}} \cup {b.y1 - r.y0 : y \in {b.y1} \cap {r.y1}}
    \cup {r.x1 - b.x0 : x \in {b.x0} \cap {r.x0}} \cup {b.x1 - r.x0 : x \in {b.x1} \cap {r.x1}}

(* C17: the clip that create() returns for the default parameters has a    *)
(* slot that opens a face of the body, is slot_width wide and reaches      *)
(* slot_depth into the body from that face, and what is left of the body   *)
(* is one connected piece.                                                 *)
C17_SlotDimensions ==
    \A k \in 1..Len(solids) :
        ctor.args = IpadStandClipArgs(15000, 2500, 4000, 2400, 3000, 300) =>
            LET body == solids[k].solid.parts[1]
                r == Intersect(body, solids[k].solid.cuts[1])
            IN  /\ attrs.slot_width \in {r.x1 - r.x0, r.y1 - r.y0}
                /\ attrs.slot_depth \in OpenDepths(body, r)
                /\ Connected(Remaining(body, r))

----------------------------------------------------------------------------
(* The treadmill-cover script *)

ScriptDone == script_pc = Len(Script) + 1 /\ run_pc = "done"

ScriptRuns ==
    <<"plate_model", "top_cover", "top_cover", "bottom_side_cover", "bottom_side_cover",
      "bottom_middle_cover">>

ScriptNames == {"treadmil-cover", "top_cover", "bottom_side_cover", "bottom_middle_cover"}

(* C15: the script calls run() on the plate, the top cover twice, the      *)
(* bottom-side cover twice and the bottom-middle cover, in this order, a   *)
(* cover having its custom_name whenever run() executes on it; the second  *)
(* run of a cover adds no file; and when the script has finished the       *)
(* output root holds exactly the four directories <name>/v1, each with     *)
(* exactly <name>.stl, <name>_front.svg and <name>.md.                     *)
C15_ScriptOutput ==
    /\ runs = SubSeq(ScriptRuns, 1, Len(runs))
    /\ (run_pc \notin {"idle", "done"} /\ inst.name_from = "attr") => inst.custom_name.set
    /\ (run_pc = "done" /\ Len(runs) >= 2 /\ runs[Len(runs)] = runs[Len(runs) - 1])
           => DOMAIN fs_files = DOMAIN pre
    /\ ScriptDone =>
           /\ runs = ScriptRuns
           /\ fs_dirs = {Root, <<"models">>}
                         \cup {<<"models", n>> : n \in ScriptNames}
                         \cup {<<"models", n, "v1">> : n \in ScriptNames}
           /\ DOMAIN fs_files
                  = UNION {{<<"models", n, "v1", StlName(n)>>,
                            <<"models", n, "v1", SvgName(n, "front")>>,
                            <<"models", n, "v1", DocName(n)>>} : n \in ScriptNames}

C15_Witness == ScriptDone /\ Len(runs) = 6 /\ calls = 6

(* The holes of the plate that a cover of the script is made for. *)
HolesOf(var) ==
    CASE var = "top_cover" -> {1, 2}
      [] var = "bottom_side_cover" -> {3, 5}
      [] var = "bottom_middle_cover" -> {4}
      [] OTHER -> {}

(* The variable the last constructor call of the script was assigned to. *)
LastNew ==
    Script[Max({k \in 1..(script_pc - 1) : Script[k].op = "new"})].var

(* C18: every HoleCover the script builds has the hole_width and           *)
(* hole_height of its holes of the default SimplePlate, an insert smaller  *)
(* by twice the clearance in each dimension, and the thickness of the      *)
(* plate's blind cut, total_thickness - rim_depth.                         *)
C18_CoversMatchHoles ==
    attrs.cls = "HoleCover" =>
        LET plate == SimplePlate_init(SimplePlateDefaults) IN
        /\ HolesOf(LastNew) # {}
        /\ \A k \in HolesOf(LastNew) :
               /\ attrs.hole_width = plate.holes[k].width
               /\ attrs.hole_height = plate.holes[k].height
               /\ attrs.insert_width = plate.holes[k].width - 2 * attrs.clearance
               /\ attrs.insert_height = plate.holes[k].height - 2 * attrs.clearance
        /\ attrs.cover_thickness = SimplePlate_cutBlind(plate)

C18_Witness ==
    /\ attrs.cls = "HoleCover"
    /\ inst.custom_name = Str("bottom_middle_cover")
    /\ run_pc = "done"

====
